---- MODULE Spec2Model ----
(***************************************************************************)
(* The graph execution engine of imageflow_core (flow/mod.rs): the caller  *)
(* builds a graph of nodes and edges, then job_execute drives it through   *)
(* the bounded convergence loop.  The passes of this source are stubs that *)
(* return true without touching the graph; they are modelled as they are.  *)
(* Node indices are 0-based as in the code (node_index(node_id)); node i   *)
(* is nodes[i + 1].  The second part is the C ABI of imageflow_abi         *)
(* (lib.rs): one context, the calls a host makes on it, its outward error  *)
(* and the JsonResponse blocks allocated on it.                            *)
(***************************************************************************)
EXTENDS Integers, Sequences, FiniteSets, TLC

\* ------------------------------------------------------------------ bounds
MaxNodes == 2
MaxCeiling == 2
ChainCount == 3
MaxLen == 2
MaxResponses == 2
MaxJobs == 2
MaxText == 2
WalkNodes == 3
TickBits == 3
MaxBase == 4
MaxExp == 4
MaxModulus == 5
MaxDigit == 3
MaxKeys == 2
MaxSignatureBytes == 3

\* --------------------------------------------------------------- data model
NodeStage ==
  <<"New", "OutboundDimensionsKnown", "ReadyForOptimize", "Optimized",
    "ReadyForPostOptimizeFlatten", "ReadyForExecution", "Executed">>

Stages == {NodeStage[i] : i \in 1..Len(NodeStage)}

StageRank(s) == CHOOSE i \in 1..Len(NodeStage) : NodeStage[i] = s

EdgeKind == {"None", "Input", "Canvas"}

FrameEstimate == {"None", "Some"}

NodeTypes == {"primitive", "decoder", "encoder"}

Ceilings == (-1)..MaxCeiling

PlaceholderIds == {0, 1}

NoError == [status |-> "NoError", line |-> 0, message |-> <<>>]

VARIABLES
  nodes,      \* the graph's node weights, in index order (raw_nodes())
  edges,      \* the graph's edges: records [from, to, kind]
  registry,   \* placeholder ids for which the job holds a codec instance
  job,        \* the Job fields job_execute reads
  last,       \* the last call the caller made on the graph, with its outcome
  pc,         \* position inside job_execute ("idle" before the call)
  passes,     \* job_execute's local `passes`
  result,     \* job_execute's return value ("none" until it returns)
  err,        \* the context's error (flow_context_set_error_get_message_buffer)
  callstack,  \* frames added by flow_context_add_to_callstack
  trace,      \* the calls made since the loop head (or since entry) was passed
  failed,     \* the first call of this run that returned false ("none" if none)
  ran_after_failure,  \* a call was made after one had returned false
  fault,      \* the call whose body returns false in this run ("none" in Spec)
  entry,      \* the node weights job_execute was called with
  process,    \* the host process: "running", "aborted" or "exited"
  outward_error,  \* the context's outward error (outward_error())
  abi,        \* the last call made across the C ABI and what came of it
  responses,  \* the JsonResponse blocks allocated on the context
  jobs,       \* the number of Jobs created on the context
  hist        \* what has happened on the context so far

vars ==
  <<nodes, edges, registry, job, last, pc, passes, result, err, callstack,
    trace, failed, ran_after_failure, fault, entry, process, outward_error,
    abi, responses, jobs, hist>>

abiVars == <<process, outward_error, abi, responses, jobs, hist>>

engineVars ==
  <<nodes, edges, registry, job, last, pc, passes, result, err, callstack,
    trace, failed, ran_after_failure, fault, entry>>

graphVars == <<nodes, edges>>

runVars ==
  <<pc, passes, result, err, callstack, trace, failed, ran_after_failure,
    fault, entry, job, registry, abiVars>>

NodeIds == 0..(Len(nodes) - 1)

Node(i) == nodes[i + 1]

\* a call on the graph: its arguments, its outcome and one detail (the edge
\* kind given, or the stage the node had before)
Called(op, a, b, status, detail) ==
  [op |-> op, a |-> a, b |-> b, status |-> status, detail |-> detail]

NodeWeight(stage, est, type, pid, codec) ==
  [stage |-> stage, frame_est |-> est, wall_ticks |-> 0, type |-> type,
   placeholder_id |-> pid, codec |-> codec]

\* a node as the caller inserts it: stage New, no frame estimate, codec not
\* yet bound
FreshNode(type, pid) == NodeWeight("New", "None", type, pid, "NULL")

InputEdge(a, b) == [from |-> a, to |-> b, kind |-> "Input"]

\* ------------------------------------------------------------- graph store
RECURSIVE ReachFrom(_, _, _)
ReachFrom(es, frontier, seen) ==
  LET next == {e.to : e \in {x \in es : x.from \in frontier}} \ seen
  IN IF next = {} THEN seen ELSE ReachFrom(es, next, seen \cup next)

\* b is reachable from a along one or more edges (of any kind)
Reaches(es, a, b) == b \in ReachFrom(es, {a}, {})

Acyclic(es) == \A e \in es : ~Reaches(es, e.to, e.from) /\ e.from # e.to

WouldCycleUnchecked(es, a, b) == FALSE

WouldCycle(es, a, b) == a = b \/ Reaches(es, b, a)

add_node(w) ==
  /\ pc = "idle"
  /\ Len(nodes) < MaxNodes
  /\ nodes' = Append(nodes, w)
  /\ last' = Called("add_node", Len(nodes), 0, "Ok", "")
  /\ UNCHANGED <<edges, runVars>>

add_edge(a, b, k) ==
  /\ pc = "idle"
  /\ a \in NodeIds /\ b \in NodeIds
  /\ IF WouldCycle(edges, a, b)
       THEN /\ last' = Called("add_edge", a, b, "GraphInvalid", k)
            /\ UNCHANGED edges
       ELSE /\ last' = Called("add_edge", a, b, "Ok", k)
            /\ edges' = edges \cup {[from |-> a, to |-> b, kind |-> k]}
  /\ UNCHANGED <<nodes, runVars>>

\* ------------------------------------------------------ dependency walker
\* the edges that carry a dependency: every kind but None
DependencyEdges(es) == {e \in es : e.kind # "None"}

\* the nodes reachable from node i along outbound dependency edges
Descendants(es, i) == ReachFrom(DependencyEdges(es), {i}, {})

LowestOf(S) == CHOOSE i \in S : \A j \in S : i <= j

\* the nodes the walker can yield next: not yet yielded, not below a node
\* whose visitor asked to skip its outbound paths, and with every parent
\* across a dependency edge already yielded
Eligible(n, es, order, cut) ==
  LET yielded == {order[k] : k \in 1..Len(order)}
  IN {i \in 0..(n - 1) :
        /\ i \notin yielded
        /\ i \notin cut
        /\ \A e \in DependencyEdges(es) : e.to = i => e.from \in yielded}

\* the walk from the nodes already yielded: the eligible node of lowest index
\* is visited next; its visitor may set quit (the walk ends there) or
\* skip_outbound_paths (its descendants are cut off from this walk)
RECURSIVE WalkFrom(_, _, _, _, _, _)
WalkFrom(n, es, skipping, quitting, order, cut) ==
  LET ready == Eligible(n, es, order, cut)
  IN IF ready = {} THEN order
     ELSE LET i == LowestOf(ready)
              visited == Append(order, i)
          IN IF i \in quitting THEN visited
             ELSE WalkFrom(n, es, skipping, quitting, visited,
                           IF i \in skipping THEN cut \cup Descendants(es, i) ELSE cut)

WalkInIndexOrder(n, es, skipping, quitting) == [k \in 1..n |-> k - 1]

WalkThroughSkips(n, es, skipping, quitting) == WalkFrom(n, es, {}, quitting, <<>>, {})

\* the sequence of nodes visited in one walk of a graph of n nodes, for
\* visitors that set skip_outbound_paths at the nodes of `skipping` and quit
\* at the nodes of `quitting`
flow_graph_walk_dependency_wise(n, es, skipping, quitting) ==
  WalkFrom(n, es, skipping, quitting, <<>>, {})

\* ------------------------------------------------- node-level operations
flow_node_has_dimensions(ns, node_id) ==
  IF node_id \in 0..(Len(ns) - 1) THEN ns[node_id + 1].frame_est = "Some" ELSE FALSE

InputsOfAnyKindHaveDimensions(ns, es, node_id) ==
  \A e \in {x \in es : x.to = node_id} : flow_node_has_dimensions(ns, e.from)

flow_node_inputs_have_dimensions(ns, es, node_id) ==
  \A e \in {x \in es : x.to = node_id} :
    e.kind # "None" => flow_node_has_dimensions(ns, e.from)

OptimizedStageReset(stage) == IF stage = "ReadyForOptimize" THEN "New" ELSE stage

OptimizedStage(stage) == IF stage = "ReadyForOptimize" THEN "Optimized" ELSE stage

VisitorOptimizesAnyStage(ns, node_id) ==
  IF node_id \in 0..(Len(ns) - 1)
    THEN [ok |-> TRUE, nodes |-> [ns EXCEPT ![node_id + 1].stage = "Optimized"]]
    ELSE [ok |-> FALSE, nodes |-> ns]

\* the return value and the node weights after node_visitor_optimize
node_visitor_optimize(ns, node_id) ==
  IF node_id \in 0..(Len(ns) - 1)
    THEN [ok |-> TRUE,
          nodes |-> [ns EXCEPT ![node_id + 1].stage = OptimizedStage(@)]]
    ELSE [ok |-> FALSE, nodes |-> ns]

\* ----------------------------------------------------- the passes (stubs)
NotifyChargesCost(ns, es) ==
  [ok |-> TRUE,
   nodes |-> [i \in 1..Len(ns) |-> [ns[i] EXCEPT !.wall_ticks = @ + 1]],
   edges |-> es]

job_notify_graph_changed(ns, es) == [ok |-> TRUE, nodes |-> ns, edges |-> es]

job_link_codecs(ns, es, reg) == job_notify_graph_changed(ns, es)

AnyExecuted(ns) == \E i \in 1..Len(ns) : ns[i].stage = "Executed"

job_graph_fully_executed(ns) == \A i \in 1..Len(ns) : ns[i].stage = "Executed"

PopulateRegress(ns, es) ==
  [ok |-> TRUE,
   nodes |-> [i \in 1..Len(ns) |-> [ns[i] EXCEPT !.stage = "New"]],
   edges |-> es]

job_populate_dimensions_where_certain(ns, es) == [ok |-> TRUE, nodes |-> ns, edges |-> es]

graph_pre_optimize_flatten(ns, es) == [ok |-> TRUE, nodes |-> ns, edges |-> es]

OptimizeSkipsStages(ns, es) ==
  [ok |-> TRUE,
   nodes |-> [i \in 1..Len(ns) |->
                IF ns[i].stage = "New" THEN [ns[i] EXCEPT !.stage = "Optimized"] ELSE ns[i]],
   edges |-> es]

graph_optimize(ns, es) == [ok |-> TRUE, nodes |-> ns, edges |-> es]

graph_post_optimize_flatten(ns, es) == [ok |-> TRUE, nodes |-> ns, edges |-> es]

ExecuteInIndexOrder(ns, es) ==
  [ok |-> TRUE,
   nodes |-> [i \in 1..Len(ns) |->
                IF i = Len(ns) /\ ns[i].stage = "ReadyForExecution"
                  THEN [ns[i] EXCEPT !.stage = "Executed"] ELSE ns[i]],
   edges |-> es]

ExecuteIgnoringParents(ns, es) ==
  [ok |-> TRUE,
   nodes |-> [i \in 1..Len(ns) |->
                IF ns[i].stage = "ReadyForExecution"
                  THEN [ns[i] EXCEPT !.stage = "Executed"] ELSE ns[i]],
   edges |-> es]

job_execute_where_certain(ns, es) == [ok |-> TRUE, nodes |-> ns, edges |-> es]

\* error_msg!(c, status): the status and the place of the raise; nothing is
\* formatted into the message buffer
ErrorWithDetails(status, line, p, ns) ==
  [status |-> status, line |-> line,
   message |-> <<p, {i \in 0..(Len(ns) - 1) : ns[i + 1].stage # "Executed"}>>]

error_msg(status, line, p, ns) == [status |-> status, line |-> line, message |-> <<>>]

\* ---------------------------------------------------------------- the C ABI
\* (imageflow_abi/src/lib.rs) one context, handed to every call as a pointer
\* that the host may also pass as null

\* the context's outward error: its kind, and whether try_clear can clear it
OutwardError(kind, recoverable) == [kind |-> kind, recoverable |-> recoverable]

NoOutwardError == OutwardError("none", TRUE)

has_error(e) == e.kind # "none"

recoverable(e) == e.recoverable

\* an error is recorded unless one is recorded already
try_set_error(e, new) == IF has_error(e) THEN e ELSE new

try_set_panic_error(e, new) == try_set_error(e, new)

\* a recoverable error is cleared; any other stays
try_clear(e) ==
  IF recoverable(e) THEN [ok |-> TRUE, error |-> NoOutwardError]
  ELSE [ok |-> FALSE, error |-> e]

\* context!: a null context pointer ends the process
context(ptr_null) == IF ptr_null THEN "abort" ELSE "ok"

ContextReadyUnchecked(ptr_null, e) == IF ptr_null THEN "abort" ELSE "ok"

ContextReadyForgiving(ptr_null, e) ==
  IF ptr_null THEN "abort"
  ELSE IF has_error(e) /\ ~recoverable(e) THEN "abort" ELSE "ok"

\* context_ready!: so does a context that holds an error
context_ready(ptr_null, e) ==
  IF ptr_null THEN "abort"
  ELSE IF has_error(e) THEN "abort" ELSE "ok"

\* what the body run under catch_unwind came to: Ok(Ok(v)), Ok(Err(error))
\* or Err(panic)
BodyResult(tag, v, kind, rec) == [tag |-> tag, v |-> v, error |-> OutwardError(kind, rec)]

HandleResultKeepsSilent(e, res, failure_value) ==
  [ret |-> IF res.tag = "Ok" THEN res.v ELSE failure_value, error |-> e]

\* handle_result!: the value, or the failure value with the error recorded
handle_result(e, res, failure_value) ==
  CASE res.tag = "Ok" -> [ret |-> res.v, error |-> e]
    [] res.tag = "Panic" ->
         [ret |-> failure_value, error |-> try_set_panic_error(e, res.error)]
    [] OTHER -> [ret |-> failure_value, error |-> try_set_error(e, res.error)]

\* a call across the ABI: the function, whether the context pointer was null,
\* whether the context held an error when it was made, whether it returned,
\* the value returned (ret for pointers and bools, n for integers), the
\* arguments and outputs, and what else the call did
AbiCall(fn, cnull, had, returned, ret, n, args, effect) ==
  [fn |-> fn, context_null |-> cnull, had_error |-> had, returned |-> returned,
   ret |-> ret, n |-> n, args |-> args, effect |-> effect]

NoCall == AbiCall("none", FALSE, FALSE, FALSE, "none", 0, <<>>, "none")

\* the exported functions that open with context_ready!
ReadyFns ==
  {"imageflow_json_response_read", "imageflow_send_json",
   "imageflow_io_create_for_file", "imageflow_io_create_from_buffer",
   "imageflow_io_create_for_output_buffer", "imageflow_io_get_output_buffer",
   "imageflow_job_get_output_buffer_by_id", "imageflow_job_create",
   "imageflow_job_get_io", "imageflow_job_add_io", "imageflow_job_destroy",
   "imageflow_context_memory_allocate"}

\* WriteResult of write_and_write_errors_to_cstring: the text and its null
\* terminator fit, or the text is cut, or the serialization itself failed
\* and that failure was written instead
WriteResult(tag, v) == [tag |-> tag, bytes_written |-> v]

write_and_write_errors_to_cstring(text_len, buffer_length, bug) ==
  IF bug
    THEN WriteResult("Error", IF buffer_length > 0 THEN buffer_length - 1 ELSE 0)
    ELSE IF text_len + 1 <= buffer_length
           THEN WriteResult("AllWritten", text_len)
           ELSE WriteResult("TruncatedAt", IF buffer_length > 0 THEN buffer_length - 1 ELSE 0)

StacktraceIgnoresTruncation(buffer_null, res) ==
  IF buffer_null THEN -1 ELSE res.bytes_written

\* the value imageflow_context_error_and_stacktrace returns
error_and_stacktrace_value(buffer_null, res) ==
  IF buffer_null THEN -1
  ELSE IF res.tag = "AllWritten" THEN res.bytes_written ELSE -1

\* the value imageflow_context_error_write_to_buffer returns
error_write_to_buffer_value(buffer_null, res) ==
  IF buffer_null THEN FALSE
  ELSE res.tag \in {"AllWritten", "Error"}

\* size_of::<JsonResponse>() in cells: the buffer pointer, the buffer size
\* and the status code
SizeofStruct == 3

CreateResponseShort(heap, json_bytes, status_code, alloc_ok) ==
  [ptr |-> Len(heap) + 1,
   heap |-> Append(heap,
              <<SizeofStruct, IF json_bytes = <<>> THEN 0 ELSE Len(json_bytes) - 1,
                status_code>> \o json_bytes)]

\* the block create_abi_json_response allocates (zeroed), with the struct at
\* its head and the copy of the bytes behind it; ptr 0 is the null pointer
create_abi_json_response(heap, json_bytes, status_code, alloc_ok) ==
  IF ~alloc_ok THEN [ptr |-> 0, heap |-> heap]
  ELSE LET alloc_size == SizeofStruct + Len(json_bytes)
           pointer == [i \in 1..alloc_size |-> 0]
           pointer_to_final_buffer == SizeofStruct
           imageflow_response ==
             [[[pointer EXCEPT ![1] = pointer_to_final_buffer]
                        EXCEPT ![2] = Len(json_bytes)]
                        EXCEPT ![3] = status_code]
       IN [ptr |-> Len(heap) + 1,
           heap |-> Append(heap,
                      [i \in 1..alloc_size |->
                         IF i > pointer_to_final_buffer
                           THEN json_bytes[i - pointer_to_final_buffer]
                           ELSE imageflow_response[i]])]

\* what imageflow_json_response_read stores through its three out pointers
\* (an out pointer that is null is skipped and its target keeps its 0), and
\* the bytes the host then finds at the buffer pointer
json_response_read(block, status_null, buffer_null, size_null) ==
  LET buffer_out == IF buffer_null THEN 0 ELSE block[1]
      size_out == IF size_null THEN 0 ELSE block[2]
  IN [status_code |-> IF status_null THEN 0 ELSE block[3],
      buffer |-> buffer_out,
      buffer_size |-> size_out,
      bytes |-> IF buffer_null THEN <<>>
                ELSE [k \in 1..size_out |-> block[buffer_out + k]]]

\* the responses of the message handlers
JsonResponse(status_code, response_json) ==
  [status_code |-> status_code, response_json |-> response_json]

teapot == JsonResponse(418, <<1, 2>>)

Bytes == {1, 2}

ByteSeqs == UNION {[1..n -> Bytes] : n \in 0..MaxLen}

Methods == {"null", "invalid_utf8", "brew_coffee", "v0.1/build"}

\* Context::message / Job::message: the response and the res; a method no
\* handler knows is answered with the teapot response
message(method, reply) ==
  IF method = "brew_coffee"
    THEN [tag |-> "Ok", json |-> teapot, error |-> NoOutwardError]
    ELSE reply

\* what a handler can come to: a response and Ok, a response and an error,
\* or a panic
Replies ==
  {[tag |-> "Ok", json |-> JsonResponse(200, b), error |-> NoOutwardError] : b \in ByteSeqs}
    \cup {[tag |-> "Err", json |-> JsonResponse(500, b), error |-> OutwardError("Err", r)] :
            b \in ByteSeqs, r \in BOOLEAN}
    \cup {[tag |-> "Panic", json |-> JsonResponse(500, <<>>), error |-> OutwardError("Panic", r)] :
            r \in BOOLEAN}

\* ------------------------------------------------------------ job_execute
BodyStepsStale ==
  <<"populate1", "notify1", "preflatten", "notify2", "populate2", "notify3",
    "optimize", "notify4", "populate3", "notify5", "postflatten", "notify6",
    "execute", "notify8">>

BodySteps ==
  <<"populate1", "notify1", "preflatten", "notify2", "populate2", "notify3",
    "optimize", "notify4", "populate3", "notify5", "postflatten", "notify6",
    "populate4", "notify7", "execute", "notify8">>

NotifyLabels ==
  {"notify0", "notify1", "notify2", "notify3", "notify4", "notify5",
   "notify6", "notify7", "notify8"}

PopulateLabels == {"populate1", "populate2", "populate3", "populate4"}

FaultPoints ==
  {"link", "preflatten", "optimize", "postflatten", "execute"} \cup PopulateLabels

CallName(label) ==
  CASE label \in NotifyLabels -> "job_notify_graph_changed"
    [] label \in PopulateLabels -> "job_populate_dimensions_where_certain"
    [] label = "link" -> "job_link_codecs"
    [] label = "preflatten" -> "graph_pre_optimize_flatten"
    [] label = "optimize" -> "graph_optimize"
    [] label = "postflatten" -> "graph_post_optimize_flatten"
    [] label = "execute" -> "job_execute_where_certain"

NextPcRelink(label) ==
  CASE label = "notify0" -> "link"
    [] label = "link" -> "loop"
    [] label = "notify8" -> "link"
    [] OTHER -> BodySteps[(CHOOSE i \in 1..Len(BodySteps) : BodySteps[i] = label) + 1]

NextPc(label) ==
  CASE label = "notify0" -> "link"
    [] label = "link" -> "loop"
    [] label = "notify8" -> "loop"
    [] OTHER -> BodySteps[(CHOOSE i \in 1..Len(BodySteps) : BodySteps[i] = label) + 1]

NextPassesStuck(p) == p

\* passes += 1
NextPasses(p) == p + 1

CeilingFirst(ns, p, max) ==
  IF p >= max THEN "exceeded"
  ELSE IF job_graph_fully_executed(ns) THEN "exit" ELSE "body"

CeilingOffByOne(ns, p, max) ==
  IF job_graph_fully_executed(ns) THEN "exit"
  ELSE IF p > max THEN "exceeded" ELSE "body"

\* the head of the while loop: the condition, then the ceiling test
LoopDecision(ns, p, max) ==
  IF job_graph_fully_executed(ns) THEN "exit"
  ELSE IF p >= max THEN "exceeded" ELSE "body"

\* the caller sets the job's pass ceiling and calls job_execute
Call(ceilings, renders, faults, registries) ==
  /\ pc = "idle"
  /\ \E m \in ceilings, r \in renders, f \in faults, reg \in registries :
       /\ job' = [job EXCEPT !.max_calc_flatten_execute_passes = m,
                             !.render_last_graph = r]
       /\ fault' = f
       /\ registry' = reg
  /\ pc' = "notify0"
  /\ passes' = 0
  /\ entry' = nodes
  /\ trace' = <<>>
  /\ last' = Called("job_execute", 0, 0, "Ok", "")
  /\ UNCHANGED <<graphVars, result, err, callstack, failed, ran_after_failure,
                 abiVars>>

\* `if !f(..) { error_return!(c); }`: the macro adds a frame to the call stack
\* and holds no return, so control falls through to the next statement
Advance(r) ==
  LET ok == r.ok /\ fault # pc
  IN /\ nodes' = r.nodes
     /\ edges' = r.edges
     /\ trace' = Append(trace, CallName(pc))
     /\ callstack' = IF ok THEN callstack ELSE callstack + 1
     /\ failed' = IF ~ok /\ failed = "none" THEN pc ELSE failed
     /\ ran_after_failure' = (ran_after_failure \/ failed # "none")
     /\ passes' = IF pc = "execute" THEN NextPasses(passes) ELSE passes
     /\ pc' = NextPc(pc)
     /\ UNCHANGED <<result, err, job, registry, fault, entry, last, abiVars>>

Notify == pc \in NotifyLabels /\ Advance(job_notify_graph_changed(nodes, edges))

LinkCodecs == pc = "link" /\ Advance(job_link_codecs(nodes, edges, registry))

Populate ==
  pc \in PopulateLabels /\ Advance(job_populate_dimensions_where_certain(nodes, edges))

PreOptimizeFlatten == pc = "preflatten" /\ Advance(graph_pre_optimize_flatten(nodes, edges))

Optimize == pc = "optimize" /\ Advance(graph_optimize(nodes, edges))

PostOptimizeFlatten ==
  pc = "postflatten" /\ Advance(graph_post_optimize_flatten(nodes, edges))

ExecuteWhereCertain == pc = "execute" /\ Advance(job_execute_where_certain(nodes, edges))

LoopHead ==
  /\ pc = "loop"
  /\ LET d == LoopDecision(nodes, passes, job.max_calc_flatten_execute_passes)
     IN /\ pc' = CASE d = "exit" -> "render" [] d = "exceeded" -> "done" [] OTHER -> BodySteps[1]
        /\ err' = IF d = "exceeded"
                    THEN error_msg("MaximumGraphPassesExceeded", 63, passes, nodes)
                    ELSE err
        /\ result' = IF d = "exceeded" THEN "false" ELSE result
        /\ trace' = IF d = "body" THEN <<>> ELSE trace
  /\ UNCHANGED <<graphVars, registry, job, last, passes, callstack, failed,
                 ran_after_failure, fault, entry, abiVars>>

\* after the loop: the optional rendering of the last graph version, whose
\* File::create(..).unwrap() and spawn().expect(..) either succeed or panic
Finish ==
  /\ pc = "render"
  /\ IF job.next_graph_version > 0 /\ job.render_last_graph
       THEN \E outcome \in {"rendered", "panic"} :
              /\ pc' = IF outcome = "panic" THEN "panicked" ELSE "done"
              /\ result' = IF outcome = "panic" THEN result ELSE "true"
       ELSE /\ pc' = "done"
            /\ result' = "true"
  /\ UNCHANGED <<graphVars, registry, job, last, passes, err, callstack, trace,
                 failed, ran_after_failure, fault, entry, abiVars>>

JobExecute ==
  \/ Notify
  \/ LinkCodecs
  \/ LoopHead
  \/ Populate
  \/ PreOptimizeFlatten
  \/ Optimize
  \/ PostOptimizeFlatten
  \/ ExecuteWhereCertain
  \/ Finish

\* the caller applies the optimize visitor to a node index of its choice
VisitOptimize ==
  /\ pc = "idle"
  /\ \E i \in 0..MaxNodes :
       LET r == node_visitor_optimize(nodes, i)
       IN /\ nodes' = r.nodes
          /\ last' = Called("node_visitor_optimize", i, 0,
                            IF r.ok THEN "Ok" ELSE "Failed",
                            IF i \in NodeIds THEN Node(i).stage ELSE "")
  /\ UNCHANGED <<edges, runVars>>

\* the u32 of cost.wall_ticks and of `elapsed as u32`, narrowed to TickBits
\* bits
TickModulus == 2 ^ TickBits

\* the stub: no estimate is computed, the call succeeds
flow_node_populate_dimensions(ns, node_id, force_estimate) == TRUE

\* `wall_ticks += elapsed` on a u32: a sum past the width wraps in a build
\* without overflow checks and panics in a build with them
AddTicks(ticks, elapsed) ==
  IF ticks + elapsed < TickModulus
    THEN {[panic |-> FALSE, ticks |-> ticks + elapsed]}
    ELSE {[panic |-> FALSE, ticks |-> (ticks + elapsed) % TickModulus],
          [panic |-> TRUE, ticks |-> ticks]}

\* flow_job_populate_dimensions_for_node for a clock that advanced by
\* elapsed_ns during the call; a node index that is not in the graph leaves
\* the graph as it is
flow_job_populate_dimensions_for_node(node_id, elapsed_ns) ==
  /\ pc = "idle"
  /\ LET ok == flow_node_populate_dimensions(nodes, node_id, FALSE)
         elapsed == elapsed_ns % TickModulus
     IN IF node_id \in NodeIds
          THEN \E sum \in AddTicks(Node(node_id).wall_ticks, elapsed) :
                 /\ nodes' = [nodes EXCEPT ![node_id + 1].wall_ticks = sum.ticks]
                 /\ last' = Called("flow_job_populate_dimensions_for_node", node_id, elapsed_ns,
                                   IF sum.panic THEN "panic" ELSE "Ok",
                                   Node(node_id).wall_ticks)
          ELSE /\ nodes' = nodes
               /\ last' = Called("flow_job_populate_dimensions_for_node", node_id, elapsed_ns,
                                 "Ok", 0)
  /\ UNCHANGED <<edges, runVars>>

\* one walk of the graph, the visitors' signals chosen by the caller
WalkDependencyWise ==
  /\ pc = "idle"
  /\ nodes # <<>>
  /\ \E skipping \in SUBSET NodeIds, quitting \in {{}} \cup {{i} : i \in NodeIds} :
       last' = Called("flow_graph_walk_dependency_wise", Len(nodes), 0, "Ok",
                      [order |-> flow_graph_walk_dependency_wise(Len(nodes), edges,
                                                                 skipping, quitting),
                       skipping |-> skipping, quitting |-> quitting])
  /\ UNCHANGED <<graphVars, runVars>>

\* ------------------------------------------------------ calls across the ABI
\* the host calls between two job_execute runs, while the process lives
AbiIdle == process = "running" /\ pc = "idle"

BoolStr(b) == IF b THEN "true" ELSE "false"

\* std::process::abort(): the call does not return
AbiAbort(fn, cnull, args) ==
  /\ process' = "aborted"
  /\ abi' = AbiCall(fn, cnull, has_error(outward_error), FALSE, "none", 0, args, "none")
  /\ UNCHANGED <<outward_error, responses, jobs, hist, engineVars>>

AbiReturn(fn, cnull, ret, n, args, effect, e2) ==
  /\ abi' = AbiCall(fn, cnull, has_error(outward_error), TRUE, ret, n, args, effect)
  /\ outward_error' = e2
  /\ UNCHANGED <<process, engineVars>>

imageflow_context_has_error(cnull) ==
  /\ AbiIdle
  /\ IF context(cnull) = "abort"
       THEN AbiAbort("imageflow_context_has_error", cnull, <<>>)
       ELSE /\ AbiReturn("imageflow_context_has_error", cnull,
                         BoolStr(has_error(outward_error)), 0, <<>>, "none", outward_error)
            /\ UNCHANGED <<responses, jobs, hist>>

imageflow_context_error_recoverable(cnull) ==
  /\ AbiIdle
  /\ IF context(cnull) = "abort"
       THEN AbiAbort("imageflow_context_error_recoverable", cnull, <<>>)
       ELSE /\ AbiReturn("imageflow_context_error_recoverable", cnull,
                         BoolStr(recoverable(outward_error)), 0, <<>>, "none", outward_error)
            /\ UNCHANGED <<responses, jobs, hist>>

imageflow_context_error_try_clear(cnull) ==
  /\ AbiIdle
  /\ IF context(cnull) = "abort"
       THEN AbiAbort("imageflow_context_error_try_clear", cnull, <<>>)
       ELSE LET r == try_clear(outward_error)
            IN /\ AbiReturn("imageflow_context_error_try_clear", cnull, BoolStr(r.ok), 0,
                            <<>>, "none", r.error)
               /\ hist' = [hist EXCEPT !.cleared = @ \/ (r.ok /\ has_error(outward_error))]
               /\ UNCHANGED <<responses, jobs>>

\* the error is printed to stderr and true is returned; there is no exit
imageflow_context_print_and_exit_if_error(cnull) ==
  /\ AbiIdle
  /\ IF context(cnull) = "abort"
       THEN AbiAbort("imageflow_context_print_and_exit_if_error", cnull, <<>>)
       ELSE /\ IF has_error(outward_error)
                 THEN AbiReturn("imageflow_context_print_and_exit_if_error", cnull, "true", 0,
                                <<>>, "printed", outward_error)
                 ELSE AbiReturn("imageflow_context_print_and_exit_if_error", cnull, "false", 0,
                                <<>>, "none", outward_error)
            /\ UNCHANGED <<responses, jobs, hist>>

ExportArgs(buffer_null, buffer_length, text_len, res) ==
  [buffer_null |-> buffer_null, buffer_length |-> buffer_length, text_len |-> text_len,
   write |-> IF buffer_null THEN WriteResult("none", 0) ELSE res]

\* the buffer is tested before the context is
imageflow_context_error_and_stacktrace(cnull, buffer_null, buffer_length, text_len, bug) ==
  LET res == write_and_write_errors_to_cstring(text_len, buffer_length, bug)
      args == ExportArgs(buffer_null, buffer_length, text_len, res)
  IN /\ AbiIdle
     /\ IF ~buffer_null /\ context(cnull) = "abort"
          THEN AbiAbort("imageflow_context_error_and_stacktrace", cnull, args)
          ELSE /\ AbiReturn("imageflow_context_error_and_stacktrace", cnull, "int",
                            error_and_stacktrace_value(buffer_null, res), args, "none",
                            outward_error)
               /\ UNCHANGED <<responses, jobs, hist>>

imageflow_context_error_write_to_buffer(cnull, buffer_null, buffer_length, text_len, bug) ==
  LET res == write_and_write_errors_to_cstring(text_len, buffer_length, bug)
      args == ExportArgs(buffer_null, buffer_length, text_len, res)
  IN /\ AbiIdle
     /\ IF ~buffer_null /\ context(cnull) = "abort"
          THEN AbiAbort("imageflow_context_error_write_to_buffer", cnull, args)
          ELSE /\ AbiReturn("imageflow_context_error_write_to_buffer", cnull,
                            BoolStr(error_write_to_buffer_value(buffer_null, res)),
                            IF buffer_null THEN 0 ELSE res.bytes_written, args, "none",
                            outward_error)
               /\ UNCHANGED <<responses, jobs, hist>>

\* a null context is not tested: flow_destroy is called with a null flow_c
\* and its answer is returned
imageflow_context_memory_free(cnull, destroyed) ==
  /\ AbiIdle
  /\ AbiReturn("imageflow_context_memory_free", cnull, BoolStr(destroyed), 0, <<>>,
               IF destroyed THEN "freed" ELSE "none", outward_error)
  /\ UNCHANGED <<responses, jobs, hist>>

imageflow_context_memory_allocate(cnull, alloc_ok) ==
  /\ AbiIdle
  /\ IF context_ready(cnull, outward_error) = "abort"
       THEN AbiAbort("imageflow_context_memory_allocate", cnull, <<>>)
       ELSE /\ AbiReturn("imageflow_context_memory_allocate", cnull,
                         IF alloc_ok THEN "ptr" ELSE "NULL", 0, <<>>, "none", outward_error)
            /\ UNCHANGED <<responses, jobs, hist>>

\* what a call was given: whether one of its required pointers was null, and
\* what its operation comes to when it is run
ReadyArgs(null_arg, body) == [null_arg |-> null_arg, body |-> body]

\* the shape of a function that hands its pointer to the operation untested:
\* context_ready!, the body under catch_unwind, handle_result!
ReadyCallWithoutNullTest(fn, cnull, null_arg, body, failure_value) ==
  /\ AbiIdle
  /\ IF context_ready(cnull, outward_error) = "abort"
       THEN AbiAbort(fn, cnull, <<>>)
       ELSE /\ LET r == handle_result(outward_error, body, failure_value)
               IN AbiReturn(fn, cnull, r.ret, 0, ReadyArgs(null_arg, body), "body", r.error)
            /\ jobs' = IF fn = "imageflow_job_create" /\ body.tag = "Ok"
                         THEN jobs + 1 ELSE jobs
            /\ UNCHANGED <<responses, hist>>

\* the shape the io and job functions share: context_ready!, the null tests
\* of the pointer arguments, the body under catch_unwind, handle_result!
ReadyCall(fn, cnull, null_arg, body, failure_value) ==
  /\ AbiIdle
  /\ IF context_ready(cnull, outward_error) = "abort"
       THEN AbiAbort(fn, cnull, <<>>)
       ELSE /\ IF null_arg
                 THEN AbiReturn(fn, cnull, failure_value, 0, ReadyArgs(null_arg, body), "none",
                                try_set_error(outward_error,
                                              OutwardError("NullArgument", body.error.recoverable)))
                 ELSE LET r == handle_result(outward_error, body, failure_value)
                      IN AbiReturn(fn, cnull, r.ret, 0, ReadyArgs(null_arg, body), "body",
                                   r.error)
            /\ jobs' = IF fn = "imageflow_job_create" /\ ~null_arg /\ body.tag = "Ok"
                         THEN jobs + 1 ELSE jobs
            /\ UNCHANGED <<responses, hist>>

BodyResults(values, tags) ==
  {BodyResult("Ok", v, "none", TRUE) : v \in values}
    \cup {BodyResult(t, "none", t, r) : t \in tags, r \in BOOLEAN}

imageflow_io_create_for_file(cnull, filename_null, body) ==
  ReadyCall("imageflow_io_create_for_file", cnull, filename_null, body, "NULL")

imageflow_io_create_from_buffer(cnull, buffer_null, body) ==
  ReadyCall("imageflow_io_create_from_buffer", cnull, buffer_null, body, "NULL")

imageflow_io_create_for_output_buffer(cnull, body) ==
  ReadyCall("imageflow_io_create_for_output_buffer", cnull, FALSE, body, "NULL")

imageflow_io_get_output_buffer(cnull, null_arg, body) ==
  ReadyCall("imageflow_io_get_output_buffer", cnull, null_arg, body, "false")

imageflow_job_get_output_buffer_by_id(cnull, null_arg, body) ==
  ReadyCall("imageflow_job_get_output_buffer_by_id", cnull, null_arg, body, "false")

imageflow_job_create(cnull, body) ==
  jobs < MaxJobs /\ ReadyCall("imageflow_job_create", cnull, FALSE, body, "NULL")

imageflow_job_get_io(cnull, job_null, body) ==
  ReadyCall("imageflow_job_get_io", cnull, job_null, body, "NULL")

imageflow_job_add_io(cnull, null_arg, body) ==
  ReadyCall("imageflow_job_add_io", cnull, null_arg, body, "false")

\* job is not tested: abi_try_remove_job is called with the pointer given
imageflow_job_destroy(cnull, job_null, body) ==
  ReadyCallWithoutNullTest("imageflow_job_destroy", cnull, job_null, body, "false")

SendArgs(job_opt, method, json_null, handled, alloc_ok) ==
  [job |-> job_opt, method |-> method, json_null |-> json_null, handled |-> handled,
   alloc_ok |-> alloc_ok]

RecipientAlwaysContext(job_opt) == "context"

\* the recipient of a message: the job when one is given, the context
\* otherwise
Recipient(job_opt) == IF job_opt = "job" THEN "job" ELSE "context"

\* job_opt is "None" (imageflow_context_send_json), "null" or "job"
imageflow_send_json(cnull, job_opt, method, json_null, reply, alloc_ok) ==
  LET m == message(method, reply)
      args == SendArgs(job_opt, method, json_null, m, alloc_ok)
      fn == "imageflow_send_json"
  IN /\ AbiIdle
     /\ IF context_ready(cnull, outward_error) = "abort"
          THEN AbiAbort(fn, cnull, args)
          ELSE /\ IF job_opt = "null" \/ method = "null" \/ json_null
                    THEN /\ AbiReturn(fn, cnull, "NULL", 0, args, "none",
                                      try_set_error(outward_error,
                                                    OutwardError("NullArgument", reply.error.recoverable)))
                         /\ UNCHANGED <<responses, hist>>
                    ELSE IF method = "invalid_utf8"
                      THEN /\ AbiReturn(fn, cnull, "NULL", 0, args, "none",
                                        try_set_error(outward_error,
                                                      OutwardError("InvalidArgument", reply.error.recoverable)))
                           /\ UNCHANGED <<responses, hist>>
                      ELSE IF m.tag = "Panic"
                        THEN /\ AbiReturn(fn, cnull, "NULL", 0, args, Recipient(job_opt),
                                          try_set_panic_error(outward_error, m.error))
                             /\ UNCHANGED <<responses, hist>>
                        ELSE LET c == create_abi_json_response(responses, m.json.response_json,
                                                               m.json.status_code, alloc_ok)
                                 e1 == IF c.ptr = 0
                                         THEN try_set_error(outward_error,
                                                            OutwardError("AllocationFailed", FALSE))
                                         ELSE outward_error
                                 e2 == IF m.tag = "Err" THEN try_set_error(e1, m.error) ELSE e1
                             IN /\ AbiReturn(fn, cnull, IF c.ptr = 0 THEN "NULL" ELSE "ptr",
                                             c.ptr, args, Recipient(job_opt), e2)
                                /\ responses' = c.heap
                                /\ hist' = IF c.ptr = 0 THEN hist
                                           ELSE [hist EXCEPT !.handled = Append(@, m.json)]
               /\ UNCHANGED jobs

\* response_in is 0 for the null pointer, or the number of a response
imageflow_json_response_read(cnull, response_in, status_null, buffer_null, size_null) ==
  LET fn == "imageflow_json_response_read"
  IN /\ AbiIdle
     /\ response_in \in 0..Len(responses)
     /\ IF context_ready(cnull, outward_error) = "abort"
          THEN AbiAbort(fn, cnull, [response_in |-> response_in])
          ELSE /\ IF response_in = 0
                    THEN AbiReturn(fn, cnull, "false", 0, [response_in |-> response_in], "none",
                                   try_set_error(outward_error,
                                                 OutwardError("NullArgument", status_null)))
                    ELSE AbiReturn(fn, cnull, "true", 0,
                                   [response_in |-> response_in,
                                    out |-> json_response_read(responses[response_in],
                                                               status_null, buffer_null, size_null),
                                    nulls |-> <<status_null, buffer_null, size_null>>],
                                   "none", outward_error)
               /\ UNCHANGED <<responses, jobs, hist>>

\* imageflow_context_memory_free on the response: the block allocated last is
\* given back
imageflow_json_response_destroy(cnull, response) ==
  /\ AbiIdle
  /\ response >= 1
  /\ response = Len(responses)
  /\ AbiReturn("imageflow_json_response_destroy", cnull, "true", 0,
               [response_in |-> response], "freed", outward_error)
  /\ responses' = SubSeq(responses, 1, response - 1)
  /\ hist' = [hist EXCEPT !.handled = SubSeq(@, 1, response - 1)]
  /\ UNCHANGED jobs

\* Job::message for the method that runs the job: the response and, when
\* job_execute returned false, the error of the run
job_message(run_result, run_err, rec) ==
  IF run_result = "false"
    THEN [tag |-> "Err", json |-> JsonResponse(500, <<>>),
          error |-> OutwardError(run_err.status, rec)]
    ELSE [tag |-> "Ok", json |-> JsonResponse(200, <<>>), error |-> NoOutwardError]

ExecuteGraphs ==
  {<<>>, <<FreshNode("primitive", 0)>>,
   <<NodeWeight("Executed", "Some", "primitive", 0, "NULL")>>}

\* imageflow_job_send_json with the method that runs the job, up to the call
\* of job_execute on the graph the message describes
JobSendJsonBegin ==
  /\ AbiIdle
  /\ jobs > 0
  /\ Len(responses) < MaxResponses
  /\ IF context_ready(FALSE, outward_error) = "abort"
       THEN AbiAbort("imageflow_send_json", FALSE, <<>>)
       ELSE \E g \in ExecuteGraphs, m \in 0..1 :
              /\ nodes' = g
              /\ edges' = {}
              /\ entry' = g
              /\ job' = [job EXCEPT !.max_calc_flatten_execute_passes = m]
              /\ pc' = "notify0"
              /\ passes' = 0
              /\ trace' = <<>>
              /\ result' = "none"
              /\ err' = NoError
              /\ failed' = "none"
              /\ ran_after_failure' = FALSE
              /\ callstack' = 0
              /\ last' = Called("job_execute", 0, 0, "Ok", "")
              /\ UNCHANGED <<registry, fault, abiVars>>

\* the rest of imageflow_send_json once job_execute has returned
JobSendJsonReturn ==
  /\ process = "running"
  /\ pc = "done"
  /\ \E rec \in BOOLEAN :
       LET m == job_message(result, err, rec)
           c == create_abi_json_response(responses, m.json.response_json,
                                         m.json.status_code, TRUE)
       IN /\ abi' = AbiCall("imageflow_send_json", FALSE, has_error(outward_error), TRUE,
                            "ptr", c.ptr, SendArgs("job", "execute", FALSE, m, TRUE),
                            Recipient("job"))
          /\ outward_error' = IF m.tag = "Err" THEN try_set_error(outward_error, m.error)
                              ELSE outward_error
          /\ responses' = c.heap
          /\ hist' = [hist EXCEPT !.job_failed = @ \/ result = "false",
                                  !.handled = Append(@, m.json)]
  /\ pc' = "idle"
  /\ UNCHANGED <<process, jobs, nodes, edges, registry, job, last, passes, result, err,
                 callstack, trace, failed, ran_after_failure, fault, entry>>

\* --------------------------------------------------------- specifications
Init ==
  /\ nodes = <<>>
  /\ edges = {}
  /\ registry = {}
  \* next_graph_version is advanced by job_notify_graph_changed alone, whose
  \* body is commented out: it keeps the 0 the job is created with
  /\ job = [max_calc_flatten_execute_passes |-> 0, next_graph_version |-> 0,
            render_last_graph |-> FALSE]
  /\ last = Called("none", 0, 0, "Ok", "")
  /\ pc = "idle"
  /\ passes = 0
  /\ result = "none"
  /\ err = NoError
  /\ callstack = 0
  /\ trace = <<>>
  /\ failed = "none"
  /\ ran_after_failure = FALSE
  /\ fault = "none"
  /\ entry = <<>>
  \* imageflow_context_create has returned a context with no error
  /\ process = "running"
  /\ outward_error = NoOutwardError
  /\ abi = NoCall
  /\ responses = <<>>
  /\ jobs = 0
  /\ hist = [job_failed |-> FALSE, cleared |-> FALSE, handled |-> <<>>]

\* graphs of nodes in any stage, no edges
AddStagedNode == \E s \in Stages : add_node(NodeWeight(s, "None", "primitive", 0, "NULL"))

CallPlain == Call(Ceilings, BOOLEAN, {"none"}, {{}})

Next == AddStagedNode \/ VisitOptimize \/ CallPlain \/ JobExecute

Spec == Init /\ [][Next]_vars

\* graphs of executable nodes with known dimensions, joined by edges
AddExecNode ==
  \E s \in {"ReadyForExecution", "Executed"} :
    add_node(NodeWeight(s, "Some", "primitive", 0, "NULL"))

AddEdge == \E a \in 0..(MaxNodes - 1), b \in 0..(MaxNodes - 1), k \in {"None", "Input"} : add_edge(a, b, k)

CallDeps == Call(0..1, {FALSE}, {"none"}, {{}})

NextDeps == AddExecNode \/ AddEdge \/ CallDeps \/ JobExecute

SpecDeps == Init /\ [][NextDeps]_vars

\* graphs of decode and encode nodes, with a registry chosen at the call
AddCodecNode ==
  \E t \in {"decoder", "encoder"}, p \in PlaceholderIds, c \in {"NULL", "bound"} :
    add_node(NodeWeight("New", "None", t, p, c))

CallCodec == Call(0..1, {FALSE}, {"none"}, SUBSET PlaceholderIds)

NextCodec == AddCodecNode \/ CallCodec \/ JobExecute

SpecCodec == Init /\ [][NextCodec]_vars

\* runs in which the body of one of the called passes returns false
AddPlainNode ==
  \E s \in {"New", "Executed"} : add_node(NodeWeight(s, "None", "primitive", 0, "NULL"))

CallFault == Call(Ceilings, {FALSE}, FaultPoints, {{}})

NextFault == AddPlainNode \/ CallFault \/ JobExecute

SpecFault == Init /\ [][NextFault]_vars

\* acyclic graphs of executed and unexecuted nodes; the calling thread runs
\* job_execute to its end once it has been called
AddInputEdge == \E a \in 0..(MaxNodes - 1), b \in 0..(MaxNodes - 1) : add_edge(a, b, "Input")

NextLive == AddPlainNode \/ AddInputEdge \/ CallPlain \/ JobExecute

LiveSpec == Init /\ [][NextLive]_vars /\ WF_vars(JobExecute)

Walked == last.op = "flow_graph_walk_dependency_wise"

\* graphs of up to WalkNodes nodes with at most one edge between two nodes,
\* built of edges the store accepts and then walked in dependency order
BuildWalkNodes ==
  /\ pc = "idle"
  /\ nodes = <<>>
  /\ \E n \in 1..WalkNodes :
       /\ nodes' = [i \in 1..n |-> FreshNode("primitive", 0)]
       /\ last' = Called("add_node", n - 1, 0, "Ok", "")
  /\ UNCHANGED <<edges, runVars>>

AddWalkEdge ==
  \E a \in 0..(WalkNodes - 1), b \in 0..(WalkNodes - 1), k \in {"None", "Input"} :
    /\ ~Walked
    /\ ~\E e \in edges : {e.from, e.to} = {a, b}
    /\ ~WouldCycle(edges, a, b)
    /\ add_edge(a, b, k)

\* the graph is walked once it is built
WalkBuiltGraph == ~Walked /\ WalkDependencyWise

NextWalk == BuildWalkNodes \/ AddWalkEdge \/ WalkBuiltGraph

SpecWalk == Init /\ [][NextWalk]_vars

\* graphs of new, ready and executed nodes with edges of both kinds, run
\* for one pass
AddReadyNode ==
  \E s \in {"New", "ReadyForExecution", "Executed"} :
    add_node(NodeWeight(s, "Some", "primitive", 0, "NULL"))

CallOnePass == Call({1}, {FALSE}, {"none"}, {{}})

NextExec == AddReadyNode \/ AddEdge \/ CallOnePass \/ JobExecute

SpecExec == Init /\ [][NextExec]_vars

\* graphs of nodes with and without a frame estimate, joined by edges of
\* every kind that the store accepts; once the graph is built the caller
\* asks for the dimensions of node indices of its choice, also of indices
\* that are not in the graph
Queried == last.op = "flow_node_inputs_have_dimensions"

AddEstimatedNode ==
  /\ ~Queried
  /\ \E est \in FrameEstimate : add_node(NodeWeight("New", est, "primitive", 0, "NULL"))

AddKindEdge ==
  \E a \in 0..(MaxNodes - 1), b \in 0..(MaxNodes - 1), k \in EdgeKind :
    /\ ~Queried
    /\ ~WouldCycle(edges, a, b)
    /\ add_edge(a, b, k)

QueryDimensions ==
  /\ pc = "idle"
  /\ \E node_id \in (-1)..MaxNodes :
       last' = Called("flow_node_inputs_have_dimensions", node_id, 0,
                      BoolStr(flow_node_inputs_have_dimensions(nodes, edges, node_id)),
                      BoolStr(flow_node_has_dimensions(nodes, node_id)))
  /\ UNCHANGED <<graphVars, runVars>>

NextGuard == AddEstimatedNode \/ AddKindEdge \/ QueryDimensions

SpecGuard == Init /\ [][NextGuard]_vars

\* populate calls on the nodes of a graph, for clocks that advance by up to
\* a little more than the width of the tick counter
PopulateForNode ==
  \E node_id \in 0..MaxNodes, elapsed_ns \in 0..(TickModulus + 1) :
    flow_job_populate_dimensions_for_node(node_id, elapsed_ns)

NextCost == AddPlainNode \/ PopulateForNode

SpecCost == Init /\ [][NextCost]_vars

\* the scenario graphs
\* one decode node and one encode node that depends on it
DecodeEncodeGraph ==
  [nodes |-> <<FreshNode("decoder", 0), FreshNode("encoder", 1)>>,
   edges |-> {InputEdge(0, 1)}]

\* a node whose flattening yields a node that must be flattened again, and
\* the node that consumes it
TwoRoundGraph ==
  [nodes |-> <<FreshNode("primitive", 0), FreshNode("primitive", 0)>>,
   edges |-> {InputEdge(0, 1)}]

\* chain k has the nodes 3k (decode), 3k + 1 (resize) and 3k + 2 (encode)
ChainGraph ==
  [nodes |-> [i \in 1..(3 * ChainCount) |->
                CASE (i - 1) % 3 = 0 -> FreshNode("decoder", 2 * ((i - 1) \div 3))
                  [] (i - 1) % 3 = 1 -> FreshNode("primitive", 0)
                  [] OTHER -> FreshNode("encoder", 2 * ((i - 1) \div 3) + 1)],
   edges |-> UNION {{InputEdge(3 * k, 3 * k + 1), InputEdge(3 * k + 1, 3 * k + 2)} :
                      k \in 0..(ChainCount - 1)}]

ScenarioGraphs == {DecodeEncodeGraph, TwoRoundGraph, ChainGraph}

ScenarioCeilings == {1, 3, 4}

ScenarioRegistry == 0..(2 * ChainCount - 1)

\* the caller builds one of the scenario graphs on an empty graph
BuildScenario ==
  /\ pc = "idle"
  /\ nodes = <<>>
  /\ \E g \in ScenarioGraphs :
       /\ nodes' = g.nodes
       /\ edges' = g.edges
       /\ last' = Called("add_edge", Len(g.nodes) - 2, Len(g.nodes) - 1, "Ok", "Input")
  /\ UNCHANGED runVars

CallScenario == Call(ScenarioCeilings, {FALSE}, {"none"}, {ScenarioRegistry})

\* runs in which one of the graph-changed notifications returns false
CallNotifyFault == Call(Ceilings, {FALSE}, NotifyLabels, {{}})

NextNotify == AddPlainNode \/ CallNotifyFault \/ JobExecute

SpecNotify == Init /\ [][NextNotify]_vars

NextScenario == BuildScenario \/ CallScenario \/ JobExecute

SpecScenario == Init /\ [][NextScenario]_vars

\* the host calls the exported functions in any order, each with a context
\* pointer that is the context or null
IoBodies == BodyResults({"io"}, {"Err", "Panic"})

BoolBodies == BodyResults({"true"}, {"Err", "Panic"})

JobBodies == BodyResults({"job"}, {"Panic"})

DestroyBodies == BodyResults({"true", "false"}, {"Panic"})

HostHasError == \E cnull \in BOOLEAN : imageflow_context_has_error(cnull)

HostErrorRecoverable == \E cnull \in BOOLEAN : imageflow_context_error_recoverable(cnull)

HostTryClear == \E cnull \in BOOLEAN : imageflow_context_error_try_clear(cnull)

HostPrintAndExit == \E cnull \in BOOLEAN : imageflow_context_print_and_exit_if_error(cnull)

HostErrorAndStacktrace ==
  \E cnull \in BOOLEAN, bnull \in BOOLEAN, len \in 0..(MaxText + 1), t \in 0..MaxText,
     bug \in BOOLEAN :
    imageflow_context_error_and_stacktrace(cnull, bnull, len, t, bug)

HostErrorWriteToBuffer ==
  \E cnull \in BOOLEAN, bnull \in BOOLEAN, len \in 0..(MaxText + 1), t \in 0..MaxText,
     bug \in BOOLEAN :
    imageflow_context_error_write_to_buffer(cnull, bnull, len, t, bug)

HostMemoryFree == \E cnull \in BOOLEAN, d \in BOOLEAN : imageflow_context_memory_free(cnull, d)

HostMemoryAllocate ==
  \E cnull \in BOOLEAN, ok \in BOOLEAN : imageflow_context_memory_allocate(cnull, ok)

HostIoCreateForFile ==
  \E cnull \in BOOLEAN, anull \in BOOLEAN, b \in IoBodies :
    imageflow_io_create_for_file(cnull, anull, b)

HostIoCreateFromBuffer ==
  \E cnull \in BOOLEAN, anull \in BOOLEAN, b \in IoBodies :
    imageflow_io_create_from_buffer(cnull, anull, b)

HostIoCreateForOutputBuffer ==
  \E cnull \in BOOLEAN, b \in IoBodies : imageflow_io_create_for_output_buffer(cnull, b)

HostIoGetOutputBuffer ==
  \E cnull \in BOOLEAN, anull \in BOOLEAN, b \in BoolBodies :
    imageflow_io_get_output_buffer(cnull, anull, b)

HostJobGetOutputBufferById ==
  \E cnull \in BOOLEAN, anull \in BOOLEAN, b \in BoolBodies :
    imageflow_job_get_output_buffer_by_id(cnull, anull, b)

HostJobCreate == \E cnull \in BOOLEAN, b \in JobBodies : imageflow_job_create(cnull, b)

HostJobGetIo ==
  \E cnull \in BOOLEAN, anull \in BOOLEAN, b \in IoBodies : imageflow_job_get_io(cnull, anull, b)

HostJobAddIo ==
  \E cnull \in BOOLEAN, anull \in BOOLEAN, b \in BoolBodies :
    imageflow_job_add_io(cnull, anull, b)

HostJobDestroy ==
  \E cnull \in BOOLEAN, anull \in BOOLEAN, b \in DestroyBodies :
    imageflow_job_destroy(cnull, anull, b)

\* messages whose handler answers with an empty response (the host holds one
\* response at a time)
HostSendPlainJson ==
  /\ responses = <<>>
  /\ \E cnull \in BOOLEAN, j \in {"None", "null", "job"}, m \in Methods, jnull \in BOOLEAN,
        r \in {x \in Replies : x.json.response_json = <<>> /\ x.error.recoverable} :
       imageflow_send_json(cnull, j, m, jnull, r, TRUE)

HostJsonResponseRead ==
  \E cnull \in BOOLEAN, p \in 0..Len(responses), sn \in BOOLEAN, bn \in BOOLEAN,
     zn \in BOOLEAN :
    imageflow_json_response_read(cnull, p, sn, bn, zn)

NextAbi ==
  \/ HostHasError
  \/ HostErrorRecoverable
  \/ HostTryClear
  \/ HostPrintAndExit
  \/ HostMemoryFree
  \/ HostMemoryAllocate
  \/ HostIoCreateForFile
  \/ HostIoCreateFromBuffer
  \/ HostIoCreateForOutputBuffer
  \/ HostIoGetOutputBuffer
  \/ HostJobGetOutputBufferById
  \/ HostJobCreate
  \/ HostJobGetIo
  \/ HostJobAddIo
  \/ HostJobDestroy
  \/ HostSendPlainJson
  \/ HostJsonResponseRead

SpecAbi == Init /\ [][NextAbi]_vars

\* the host raises errors on the context and exports their text
NextExport ==
  \/ HostIoCreateForFile
  \/ HostTryClear
  \/ HostErrorAndStacktrace
  \/ HostErrorWriteToBuffer

SpecExport == Init /\ [][NextExport]_vars

\* the host sends messages of every kind and reads the responses
\* (the host holds one response at a time)
HostSendJson ==
  /\ responses = <<>>
  /\ \E j \in {"None", "null", "job"}, m \in Methods, jnull \in BOOLEAN, ok \in BOOLEAN,
        r \in {x \in Replies : x.error.recoverable} :
       imageflow_send_json(FALSE, j, m, jnull, r, ok)

HostDestroyResponse == imageflow_json_response_destroy(FALSE, Len(responses))

HostReadResponse ==
  \E p \in 1..Len(responses), sn \in BOOLEAN, bn \in BOOLEAN, zn \in BOOLEAN :
    imageflow_json_response_read(FALSE, p, sn, bn, zn)

HostClear == imageflow_context_error_try_clear(FALSE)

NextJson == HostSendJson \/ HostReadResponse \/ HostDestroyResponse \/ HostClear

SpecJson == Init /\ [][NextJson]_vars

\* the host creates jobs on the context, runs them and clears errors
HostCreateJob == \E b \in JobBodies : imageflow_job_create(FALSE, b)

NextAbiJob == HostCreateJob \/ JobSendJsonBegin \/ JobExecute \/ JobSendJsonReturn \/ HostClear

SpecAbiJob == Init /\ [][NextAbiJob]_vars

\* ---------------------------------------------------------------- licensing
\* (imageflow_helpers/src/licensing/mod.rs) numbers are unbounded (BigInt); a
\* byte is a digit of 0..MaxDigit, a digest is one byte long

\* RSADecryptPublic::new: a key, or None when modulus or exponent is not
\* positive
RSADecryptPublic_new(modulus, exponent) ==
  IF modulus > 0 /\ exponent > 0
    THEN [tag |-> "Some", modulus |-> modulus, exponent |-> exponent]
    ELSE [tag |-> "None", modulus |-> 0, exponent |-> 0]

\* the loop of powm: square and multiply, from the lowest bit of exp
RECURSIVE PowmLoop(_, _, _, _)
PowmLoop(exp, powm_result, base, modulus) ==
  IF exp > 0
    THEN PowmLoop(exp \div 2,
                  IF exp % 2 = 1 THEN (powm_result * base) % modulus ELSE powm_result,
                  (base * base) % modulus, modulus)
    ELSE powm_result

powm(base, exp, modulus) == PowmLoop(exp, 1, base % modulus, modulus)

mod_pow(rsa, input) == powm(input, rsa.exponent, rsa.modulus)

Radix == MaxDigit + 1

\* BigInt::from_bytes_be: the number the bytes spell, highest byte first
RECURSIVE from_bytes_be(_)
from_bytes_be(bytes) ==
  IF bytes = <<>> THEN 0
  ELSE from_bytes_be(SubSeq(bytes, 1, Len(bytes) - 1)) * Radix + bytes[Len(bytes)]

\* BigInt::to_bytes_be: the bytes of a number, highest first, without
\* leading zeros (one zero byte for zero)
RECURSIVE to_bytes_be(_)
to_bytes_be(n) ==
  IF n < Radix THEN <<n>> ELSE Append(to_bytes_be(n \div Radix), n % Radix)

\* .skip_while(|v| *v != 0).skip(1): what follows the first zero byte
SkipPadding(bytes) ==
  LET zeros == {i \in 1..Len(bytes) : bytes[i] = 0}
  IN IF zeros = {} THEN <<>>
     ELSE SubSeq(bytes, (CHOOSE i \in zeros : \A j \in zeros : i <= j) + 1, Len(bytes))

\* decrypt_public: an input not below the modulus is refused
decrypt_public(rsa, bytes) ==
  LET input == from_bytes_be(bytes)
  IN IF input >= rsa.modulus
       THEN [tag |-> "Err", kind |-> "RsaDecryptInputLargerThanModulus", bytes |-> <<>>]
       ELSE [tag |-> "Ok", kind |-> "none",
             bytes |-> SkipPadding(to_bytes_be(mod_pow(rsa, input)))]

\* the digest of the data (Sha512, here of one byte)
Sha512(data) == IF data = <<>> THEN <<0>> ELSE <<data[Len(data)]>>

\* the loop of validate_signature from key i on: the first key that refuses
\* the signature ends it with its error
RECURSIVE ValidateFrom(_, _, _, _)
ValidateFrom(i, digest, signature, trusted_keys) ==
  IF i > Len(trusted_keys) THEN [tag |-> "Ok", valid |-> FALSE]
  ELSE LET decrypted == decrypt_public(trusted_keys[i], signature)
       IN IF decrypted.tag = "Err" THEN [tag |-> "Err", valid |-> FALSE]
          ELSE IF decrypted.bytes = digest THEN [tag |-> "Ok", valid |-> TRUE]
          ELSE ValidateFrom(i + 1, digest, signature, trusted_keys)

validate_signature(data, signature, trusted_keys) ==
  ValidateFrom(1, Sha512(data), signature, trusted_keys)

\* what the data of a license is read as: bytes that are not UTF-8, a text
\* without Id and Domain, a text with a date that is not RFC 3339, or a text
\* LicenseParser::new accepts
DataKind(data) ==
  IF data = <<>> THEN "no_id"
  ELSE CASE data[1] = 1 -> "not_utf8"
         [] data[1] = 2 -> "no_id"
         [] data[1] = 3 -> "bad_date"
         [] OTHER -> "fields"

\* LicenseParser::new: the two expect() calls panic
LicenseParser_new(data) ==
  IF DataKind(data) \in {"no_id", "bad_date"} THEN "panic" ELSE "Ok"

\* a segment of a license: base64 that decodes to bytes, or text that is not
\* base64
Segment(valid, bytes) == [valid |-> valid, bytes |-> bytes]

\* LicenseBlob::deserialize on the ':'-delimited segments of the license:
\* "blob", or the kind of the error returned, or "panic"
deserialize(trusted_keys, parts) ==
  IF Len(parts) < 2 THEN "LicenseCorrupted"
  ELSE LET data_bytes == parts[Len(parts) - 1]
           signature_bytes == parts[Len(parts)]
       IN IF ~data_bytes.valid THEN "LicenseCorrupted"
          ELSE IF ~signature_bytes.valid THEN "LicenseCorrupted"
          ELSE LET signature_valid ==
                     validate_signature(data_bytes.bytes, signature_bytes.bytes, trusted_keys)
               IN IF signature_valid.tag = "Err" THEN "LicenseCorrupted"
                  ELSE IF ~signature_valid.valid THEN "LicenseCorrupted"
                  ELSE IF DataKind(data_bytes.bytes) = "not_utf8" THEN "Msg"
                  ELSE IF LicenseParser_new(data_bytes.bytes) = "panic" THEN "panic"
                  ELSE "blob"

\* one call of powm
CallPowm ==
  /\ pc = "idle"
  /\ last.op = "none"
  /\ \E base \in 0..MaxBase, exp \in 0..MaxExp, modulus \in 1..MaxModulus :
       last' = Called("powm", base, exp, "Ok",
                      [modulus |-> modulus, value |-> powm(base, exp, modulus)])
  /\ UNCHANGED <<graphVars, runVars>>

\* the keys a caller can trust: those RSADecryptPublic::new makes
KeyPool ==
  {k \in {RSADecryptPublic_new(21, 5), RSADecryptPublic_new(33, 3),
          RSADecryptPublic_new(0, 3), RSADecryptPublic_new(33, 0)} : k.tag = "Some"}

TrustedKeyLists == UNION {[1..n -> KeyPool] : n \in 0..MaxKeys}

ByteStrings(max) == UNION {[1..n -> 0..MaxDigit] : n \in 0..max}

DataSegments == {Segment(TRUE, d) : d \in ByteStrings(2)} \cup {Segment(FALSE, <<>>)}

SignatureSegments ==
  {Segment(TRUE, b) : b \in ByteStrings(MaxSignatureBytes)} \cup {Segment(FALSE, <<>>)}

Licenses ==
  {<<Segment(FALSE, <<>>)>>}
    \cup {<<d, g>> : d \in DataSegments, g \in SignatureSegments}
    \cup {<<Segment(FALSE, <<>>), d, g>> : d \in DataSegments, g \in SignatureSegments}

\* one call of LicenseBlob::deserialize
CallDeserialize ==
  /\ pc = "idle"
  /\ last.op = "none"
  /\ \E trusted_keys \in TrustedKeyLists, parts \in Licenses :
       last' = Called("deserialize", trusted_keys, parts,
                      deserialize(trusted_keys, parts), "")
  /\ UNCHANGED <<graphVars, runVars>>

NextLicense == CallPowm \/ CallDeserialize

SpecLicense == Init /\ [][NextLicense]_vars

\* ------------------------------------------------------------------ claims
AllExecuted == \A i \in NodeIds : Node(i).stage = "Executed"

NotExecuted == {i \in NodeIds : Node(i).stage # "Executed"}

Returned == pc = "done"

Exceeded == Returned /\ result = "false" /\ err.status = "MaximumGraphPassesExceeded"

\* C1: once job_execute has been called on an acyclic graph it eventually
\* returns, either with every node Executed or with the failure
\* MaximumGraphPassesExceeded; the convergence loop has no infinite execution
\* (checked under LiveSpec).
C1_Termination ==
  (pc = "notify0") ~> (Returned /\ ((result = "true" /\ AllExecuted) \/ Exceeded))

C1_Witness ==
  /\ Exceeded
  /\ job.max_calc_flatten_execute_passes >= 1
  /\ passes >= 1
  /\ edges # {}
  /\ Acyclic(edges)

\* C2: job_execute returns true only in a state where every node of the graph
\* has stage Executed.
C2_SuccessOnlyWhenExecuted == result = "true" => AllExecuted

C2_Witness == Returned /\ result = "true" /\ Len(nodes) >= 2

\* C3: no step moves a node's stage backwards in the order of NodeStage, and
\* inside a job_execute run every node's stage is at or after the stage it
\* had when the run began.
C3_MonotonicStage ==
  /\ [][\A i \in NodeIds :
          StageRank(nodes'[i + 1].stage) >= StageRank(nodes[i + 1].stage)]_vars
  /\ [](pc # "idle" =>
          \A i \in NodeIds : StageRank(Node(i).stage) >= StageRank(entry[i + 1].stage))

C3_Witness ==
  /\ last.op = "node_visitor_optimize"
  /\ last.detail = "ReadyForOptimize"
  /\ Node(last.a).stage = "Optimized"

DependencyOrder(ns, es) ==
  \A e \in es :
    (e.kind # "None" /\ ns[e.to + 1].stage = "Executed") => ns[e.from + 1].stage = "Executed"

UnresolvedCodec(ns, reg) ==
  \E i \in 1..Len(ns) :
    /\ ns[i].type \in {"decoder", "encoder"}
    /\ ns[i].codec = "NULL"
    /\ ns[i].placeholder_id \notin reg

\* C5: if a decode or encode node has no bound codec and the registry has no
\* instance for its placeholder id, job_execute fails with CodecNotFound
\* before the loop starts: once codec linking is over the run has returned
\* false with that status, no pass has run and no stage has changed
\* (checked under SpecCodec).
C5_CodecNotFoundAborts ==
  (pc \notin {"idle", "notify0", "link"} /\ UnresolvedCodec(entry, registry))
    => /\ Returned
       /\ result = "false"
       /\ err.status = "CodecNotFound"
       /\ passes = 0
       /\ nodes = entry

C7_ExecutedCheckFirst ==
  /\ (pc \in {"render", "done"} /\ AllExecuted) => result # "false"
  /\ err.status = "MaximumGraphPassesExceeded" =>
       (NotExecuted # {} /\ passes >= job.max_calc_flatten_execute_passes)

C7_Witness ==
  /\ Returned
  /\ result = "true"
  /\ nodes # <<>>
  /\ job.max_calc_flatten_execute_passes <= 0

\* C8 as claimed: the MaximumGraphPassesExceeded failure carries the number of
\* passes done and the set of nodes that are not Executed.
C8_ReportCarriesDetails ==
  err.status = "MaximumGraphPassesExceeded" => err.message = <<passes, NotExecuted>>

\* C8 as amended: the MaximumGraphPassesExceeded failure carries the status
\* code and the place of the raise only; its message is empty.
C8_ReportIsStatusOnly ==
  err.status = "MaximumGraphPassesExceeded" =>
    (err.message = <<>> /\ err.line = 63 /\ Returned /\ result = "false")

C8_Witness == Exceeded /\ passes >= 2 /\ NotExecuted # {}

\* C9: inserting an edge that would close a directed cycle fails with
\* GraphInvalid and leaves nodes and edges as they were; every edge that is
\* inserted closes no cycle, so the graph is acyclic in every reachable state
\* (checked under SpecDeps).
C9_CycleRejection ==
  /\ []Acyclic(edges)
  /\ [][(pc' = "idle" /\ last'.op = "add_edge") =>
          IF last'.a = last'.b \/ Reaches(edges, last'.b, last'.a)
            THEN last'.status = "GraphInvalid" /\ edges' = edges /\ nodes' = nodes
            ELSE /\ last'.status = "Ok"
                 /\ edges' = edges \cup {[from |-> last'.a, to |-> last'.b,
                                          kind |-> last'.detail]}]_vars

C9_Witness ==
  /\ last.op = "add_edge"
  /\ last.status = "GraphInvalid"
  /\ last.a # last.b
  /\ edges # {}

AllDimensionsKnown == \A i \in NodeIds : Node(i).frame_est = "Some"

\* C10: job_populate_dimensions_where_certain on a graph in which every node
\* has a known frame estimate changes no stage, no frame estimate and no
\* edge, and takes nothing off any node's wall_ticks (checked under SpecDeps).
C10_PopulateIdempotent ==
  [][(pc \in PopulateLabels /\ AllDimensionsKnown) =>
       /\ edges' = edges
       /\ Len(nodes') = Len(nodes)
       /\ \A i \in NodeIds :
            /\ nodes'[i + 1].stage = nodes[i + 1].stage
            /\ nodes'[i + 1].frame_est = nodes[i + 1].frame_est
            /\ nodes'[i + 1].wall_ticks >= nodes[i + 1].wall_ticks]_vars

C10_Witness ==
  /\ pc = "notify7"
  /\ Len(nodes) >= 2
  /\ edges # {}
  /\ AllDimensionsKnown
  /\ nodes = entry

RunOf(g, ceiling) ==
  /\ entry = g.nodes
  /\ edges = g.edges
  /\ job.max_calc_flatten_execute_passes = ceiling

\* C11: on the graph of one decode node and one encode node that depends on
\* it, with both placeholders registered and a ceiling of 4 passes,
\* job_execute returns true after at most one pass with both nodes Executed
\* (checked under SpecScenario).
C11_DecodeEncodeCompletes ==
  (Returned /\ RunOf(DecodeEncodeGraph, 4) /\ {0, 1} \subseteq registry)
    => (result = "true" /\ passes <= 1 /\ AllExecuted)

\* C12: on a graph that needs two rounds of flatten-then-optimize, job_execute
\* with ceiling 1 fails with MaximumGraphPassesExceeded and job_execute with
\* ceiling 3 returns true with every node Executed (checked under
\* SpecScenario).
C12_TwoRounds ==
  /\ (Returned /\ RunOf(TwoRoundGraph, 1)) => Exceeded
  /\ (Returned /\ RunOf(TwoRoundGraph, 3)) => (result = "true" /\ AllExecuted)

\* C13: on three decode-resize-encode chains that share no edge, job_execute
\* returns with all nine nodes Executed, and at every point of the run a
\* chain's node is Executed only after the node before it in the chain
\* (checked under SpecScenario).
C13_ChainsExecuted ==
  /\ (Returned /\ entry = ChainGraph.nodes /\ edges = ChainGraph.edges)
       => (result = "true" /\ AllExecuted)
  /\ (pc # "idle" /\ entry = ChainGraph.nodes) => DependencyOrder(nodes, edges)

\* C15: every call of job_notify_graph_changed leaves the nodes (their stages,
\* frame estimates and costs), the edges and the pass count as they were, and
\* a notification that returns false does not make job_execute fail: the run
\* still returns true exactly when every node is Executed, and false only
\* with MaximumGraphPassesExceeded (checked under SpecNotify).
C15_NotifyHasNoEffect ==
  /\ [][(pc \in NotifyLabels) =>
          /\ nodes' = nodes
          /\ edges' = edges
          /\ passes' = passes]_vars
  /\ []((failed \in NotifyLabels /\ Returned) =>
          /\ result = "true" <=> AllExecuted
          /\ result = "false" => Exceeded)

C15_Witness ==
  /\ Returned
  /\ result = "true"
  /\ failed = "notify0"
  /\ callstack = 1
  /\ nodes # <<>>
  /\ nodes = entry

C16_NullContextTerminates ==
  abi.context_null => (process = "aborted" /\ ~abi.returned /\ abi.effect = "none")

\* C17: a call of one of the context_ready! functions on a context that holds
\* an error ends the process and does not return; on a context without error
\* it returns. An error leaves the context only through a call of
\* imageflow_context_error_try_clear that returns true (checked under
\* SpecAbi).
C17_ErroredContextFailFast ==
  /\ []((abi.fn \in ReadyFns /\ ~abi.context_null) =>
          IF abi.had_error
            THEN process = "aborted" /\ ~abi.returned
            ELSE process = "running" /\ abi.returned)
  /\ [][(has_error(outward_error) /\ ~has_error(outward_error')) =>
          /\ abi'.fn = "imageflow_context_error_try_clear"
          /\ abi'.ret = "true"]_vars

C17_Witness ==
  /\ hist.cleared
  /\ abi.fn \in ReadyFns
  /\ ~abi.had_error
  /\ abi.returned
  /\ process = "running"

\* C18: imageflow_context_print_and_exit_if_error on a context that holds an
\* error ends the process without returning; on a context without error it
\* returns false and the process lives on (checked under SpecAbi).
C18_PrintAndExit ==
  (abi.fn = "imageflow_context_print_and_exit_if_error" /\ ~abi.context_null) =>
    IF abi.had_error
      THEN process = "exited" /\ ~abi.returned
      ELSE process = "running" /\ abi.returned /\ abi.ret = "false"

\* the status code and the bytes a host finds in a response block
Decode(block) ==
  JsonResponse(block[3], [k \in 1..block[2] |-> block[block[1] + k]])

\* C19 as claimed: every message sent on a ready context with a method and a
\* buffer that are not null is answered with a JsonResponse that is not null
\* (checked under SpecJson).
C19_ResponseNeverNull ==
  (/\ abi.fn = "imageflow_send_json"
   /\ ~abi.context_null
   /\ ~abi.had_error
   /\ abi.args.job # "null"
   /\ abi.args.method # "null"
   /\ ~abi.args.json_null)
    => (abi.returned /\ abi.ret = "ptr")

\* C19 as amended: a message sent on a ready context with non-null arguments
\* is answered with a JsonResponse that is not null when the method is valid
\* UTF-8, the handler does not panic and the allocation succeeds, and with
\* null otherwise; the response holds exactly the status code and the bytes
\* the handler produced (those of the teapot response for brew_coffee), and
\* imageflow_json_response_read yields exactly these (checked under SpecJson).
C19_JsonRoundTrip ==
  /\ (/\ abi.fn = "imageflow_send_json"
      /\ abi.returned
      /\ abi.args.job # "null"
      /\ abi.args.method # "null"
      /\ ~abi.args.json_null) =>
       IF /\ abi.args.method # "invalid_utf8"
          /\ abi.args.handled.tag # "Panic"
          /\ abi.args.alloc_ok
         THEN /\ abi.ret = "ptr"
              /\ abi.n = Len(responses)
              /\ Decode(responses[abi.n]) = abi.args.handled.json
              /\ abi.args.method = "brew_coffee" => Decode(responses[abi.n]) = teapot
         ELSE abi.ret = "NULL" /\ abi.n = 0
  /\ \A i \in 1..Len(responses) : Decode(responses[i]) = hist.handled[i]
  /\ (/\ abi.fn = "imageflow_json_response_read"
      /\ abi.returned
      /\ abi.ret = "true"
      /\ abi.args.nulls = <<FALSE, FALSE, FALSE>>) =>
       JsonResponse(abi.args.out.status_code, abi.args.out.bytes)
         = hist.handled[abi.args.response_in]

C19_Witness ==
  /\ abi.fn = "imageflow_json_response_read"
  /\ abi.ret = "true"
  /\ abi.args.nulls = <<FALSE, FALSE, FALSE>>
  /\ Len(abi.args.out.bytes) >= 2
  /\ abi.args.out.status_code = 200

PassesOf(t) == SelectSeq(t, LAMBDA x : x # "job_notify_graph_changed")

PassSequence ==
  <<"job_populate_dimensions_where_certain", "graph_pre_optimize_flatten",
    "job_populate_dimensions_where_certain", "graph_optimize",
    "job_populate_dimensions_where_certain", "graph_post_optimize_flatten",
    "job_populate_dimensions_where_certain", "job_execute_where_certain">>

InBody == pc \in {BodySteps[i] : i \in 1..Len(BodySteps)}

\* C21: every iteration of the convergence loop calls, in this order and once
\* each, populate, pre-optimize flatten, populate, optimize, populate,
\* post-optimize flatten, populate, execute-where-certain (inside the body the
\* calls made so far are a prefix of that sequence, at the end of the body
\* they are the whole sequence), and passes changes only at
\* execute-where-certain, by exactly 1.
C21_PassSequence ==
  /\ [](InBody => PassesOf(trace) = SubSeq(PassSequence, 1, Len(PassesOf(trace))))
  /\ []((pc = "loop" /\ passes > 0) => PassesOf(trace) = PassSequence)
  /\ [][(passes' # passes) =>
          \/ pc = "idle"
          \/ pc = "execute" /\ passes' = passes + 1]_vars

C21_Witness ==
  /\ pc = "loop"
  /\ passes = 2
  /\ PassesOf(trace) = PassSequence
  /\ NotExecuted # {}

\* C22: job_link_codecs is called once per job_execute, after the first
\* notification and before the loop is entered for the first time, and never
\* from inside the loop: the loop body is entered from the loop head only, no
\* step of the body or of the loop head leads back to the call, and no trace
\* of an iteration holds it.
C22_LinkOnce ==
  /\ []((pc = "loop" /\ passes = 0) =>
          trace = <<"job_notify_graph_changed", "job_link_codecs">>)
  /\ []((InBody \/ (pc = "loop" /\ passes > 0)) =>
          \A i \in 1..Len(trace) : trace[i] # "job_link_codecs")
  /\ [][/\ (pc' = "link" /\ pc # "link") => pc = "notify0"
        /\ (pc' = "notify0" /\ pc # "notify0") => pc = "idle"
        /\ (pc = "link" /\ pc' # "link") => (pc' = "loop" /\ passes' = 0)
        /\ (pc' = BodySteps[1] /\ pc # BodySteps[1]) => pc = "loop"]_vars

C22_Witness ==
  /\ pc = "loop"
  /\ passes = 0
  /\ Len(trace) = 2
  /\ trace[2] = "job_link_codecs"
  /\ NotExecuted # {}
  /\ job.max_calc_flatten_execute_passes >= 1

AtLeastZero(x) == IF x > 0 THEN x ELSE 0

\* C23: at every point of a job_execute run passes is at most
\* max(0, max_calc_flatten_execute_passes), and every call of
\* job_execute_where_certain leaves passes at or below the ceiling, so that
\* the pass is called at most ceiling times in one run.
C23_PassesBounded ==
  /\ [](pc # "idle" => passes <= AtLeastZero(job.max_calc_flatten_execute_passes))
  /\ [][(pc = "execute" /\ pc' # "execute") =>
          (passes' = passes + 1 /\ passes' <= job.max_calc_flatten_execute_passes)]_vars

C23_Witness ==
  /\ Exceeded
  /\ passes >= 2
  /\ passes = job.max_calc_flatten_execute_passes

WalkOrder == last.detail.order

\* the position of node i in the walk, 0 when it was not visited
YieldedAt(i) ==
  IF \E k \in 1..Len(WalkOrder) : WalkOrder[k] = i
    THEN CHOOSE k \in 1..Len(WalkOrder) : WalkOrder[k] = i
    ELSE 0

DependsOn(a, b) == b \in Descendants(edges, a)

\* C24 as stated: any two visited nodes with no dependency path between them
\* are yielded in index order.
C24_UnrelatedInIndexOrder ==
  Walked =>
    \A i \in NodeIds, j \in NodeIds :
      (i < j /\ YieldedAt(i) > 0 /\ YieldedAt(j) > 0
         /\ ~DependsOn(i, j) /\ ~DependsOn(j, i)) => YieldedAt(i) < YieldedAt(j)

\* C24: in every walk each node is yielded at most once and only after every
\* parent connected to it by an edge of kind other than None; edges of kind
\* None impose no ordering (the walk is the walk of the graph without them);
\* and the node yielded at each position has the lowest index among the
\* nodes that could be yielded there, which makes the walk of a graph
\* deterministic.
C24_WalkOrder ==
  Walked =>
    /\ \A k \in 1..Len(WalkOrder), l \in 1..Len(WalkOrder) :
         WalkOrder[k] = WalkOrder[l] => k = l
    /\ \A e \in edges :
         (e.kind # "None" /\ YieldedAt(e.to) > 0) =>
           (YieldedAt(e.from) > 0 /\ YieldedAt(e.from) < YieldedAt(e.to))
    /\ WalkOrder = flow_graph_walk_dependency_wise(Len(nodes), DependencyEdges(edges),
                                                   last.detail.skipping,
                                                   last.detail.quitting)
    /\ \A k \in 1..Len(WalkOrder), j \in NodeIds :
         (j < WalkOrder[k] /\ (YieldedAt(j) = 0 \/ YieldedAt(j) > k)) =>
           \/ \E e \in edges :
                /\ e.kind # "None" /\ e.to = j
                /\ (YieldedAt(e.from) = 0 \/ YieldedAt(e.from) >= k)
           \/ \E a \in last.detail.skipping :
                YieldedAt(a) > 0 /\ YieldedAt(a) < k /\ DependsOn(a, j)

\* a walk of three nodes in which the node of highest index is yielded first,
\* because the node of lowest index depends on it, and an edge of kind None
\* points against the order of the walk
C24_Witness ==
  /\ Walked
  /\ Len(WalkOrder) = 3
  /\ WalkOrder[1] > WalkOrder[2]
  /\ \E e \in edges : e.kind = "None" /\ YieldedAt(e.from) > YieldedAt(e.to)
  /\ \E e \in edges : e.kind = "Input"

\* the nodes whose visitor set skip_outbound_paths in the walk
SkippedAt == {a \in last.detail.skipping : YieldedAt(a) > 0}

BelowSkipped == {j \in NodeIds : \E a \in SkippedAt : DependsOn(a, j)}

\* C25: in a walk no descendant (along outbound dependency edges) of a node
\* whose visitor set skip_outbound_paths is visited, and, unless a visitor
\* quit the walk, every node that is not such a descendant is visited; the
\* walk itself ends normally, a skip is not an error.
C25_SkipOutboundPaths ==
  Walked =>
    /\ \A j \in BelowSkipped : YieldedAt(j) = 0
    /\ last.detail.quitting = {} =>
         \A j \in NodeIds \ BelowSkipped : YieldedAt(j) > 0
    /\ last.status = "Ok"

\* a node is skipped, its child is not visited, and a node that does not
\* descend from it is visited after it
C25_Witness ==
  /\ Walked
  /\ last.detail.quitting = {}
  /\ \E a \in SkippedAt, j \in BelowSkipped, o \in NodeIds \ BelowSkipped :
       /\ [from |-> a, to |-> j, kind |-> "Input"] \in edges
       /\ YieldedAt(o) > YieldedAt(a)

LastCall == IF trace = <<>> THEN "" ELSE trace[Len(trace)]

\* C26: a flatten pass returns to job_execute only after a complete walk in
\* which no node was rewritten: when graph_post_optimize_flatten has
\* returned, no node is left in stage ReadyForPostOptimizeFlatten, the stage
\* of a node whose rewrite is still to be applied.
C26_FlattenFixedPoint ==
  LastCall = "graph_post_optimize_flatten" =>
    \A i \in NodeIds : Node(i).stage # "ReadyForPostOptimizeFlatten"

C28_ExecuteEligibility ==
  [][(pc = "execute" /\ pc' # "execute") =>
       /\ Len(nodes') = Len(nodes)
       /\ \A i \in NodeIds :
            IF nodes'[i + 1].stage = "Executed" /\ Node(i).stage # "Executed"
              THEN /\ Node(i).stage = "ReadyForExecution"
                   /\ \A e \in DependencyEdges(edges) :
                        e.to = i => nodes'[e.from + 1].stage = "Executed"
              ELSE nodes'[i + 1] = Node(i)
       /\ failed' = failed
       /\ callstack' = callstack]_vars

\* job_execute_where_certain has returned on a graph in which a node ready
\* for execution depends on a node that is not executed
C28_Witness ==
  /\ pc = "notify8"
  /\ LastCall = "job_execute_where_certain"
  /\ failed = "none"
  /\ \E e \in DependencyEdges(edges) :
       /\ Node(e.from).stage = "New"
       /\ Node(e.to).stage = "ReadyForExecution"

\* C29: when job_populate_dimensions_where_certain has returned, every node
\* that entered the run in stage New and whose dependency inputs all have a
\* known frame estimate has a known frame estimate itself and has left
\* stage New.
C29_PopulateEligibility ==
  LastCall = "job_populate_dimensions_where_certain" =>
    \A i \in NodeIds :
      (entry[i + 1].stage = "New" /\ flow_node_inputs_have_dimensions(nodes, edges, i))
        => (flow_node_has_dimensions(nodes, i) /\ Node(i).stage # "New")

\* the parents of node n across an edge of kind other than None
DependencyParents(n) == {e.from : e \in {x \in edges : x.to = n /\ x.kind \in {"Input", "Canvas"}}}

\* C30: flow_node_inputs_have_dimensions(node) is true exactly when every
\* parent of the node across an edge of kind other than None has a frame
\* estimate Some; parents across edges of kind None only are ignored, a node
\* without parents yields true, and the call leaves the graph as it was;
\* flow_node_has_dimensions is false for an index that is not in the graph
\* and tells whether the estimate is Some for one that is.
C30_InputsKnownGuard ==
  /\ [](Queried =>
          /\ last.status = BoolStr(\A p \in DependencyParents(last.a) :
                                     Node(p).frame_est = "Some")
          /\ (~\E e \in edges : e.to = last.a) => last.status = "true"
          /\ last.detail = BoolStr(last.a \in NodeIds /\ Node(last.a).frame_est = "Some"))
  /\ [][(last'.op = "flow_node_inputs_have_dimensions" /\ last' # last) =>
          UNCHANGED graphVars]_vars

\* the guard answered true for a node whose only parent has no frame
\* estimate and is joined to it by an edge of kind None
C30_Witness ==
  /\ Queried
  /\ last.status = "true"
  /\ \E e \in edges : e.to = last.a /\ e.kind = "None" /\ Node(e.from).frame_est = "None"
  /\ DependencyParents(last.a) = {}

\* a step that is one call of node_visitor_optimize
VisitorStep == last'.op = "node_visitor_optimize" /\ (last' # last \/ nodes' # nodes)

\* C31: node_visitor_optimize on an existing node returns success, moves the
\* node to Optimized exactly when its stage was ReadyForOptimize and leaves
\* it as it was otherwise, changes no other node and no edge; for an index
\* that is not in the graph it returns failure and changes nothing.
C31_OptimizeVisitor ==
  [][VisitorStep =>
       /\ edges' = edges
       /\ Len(nodes') = Len(nodes)
       /\ \A j \in NodeIds \ {last'.a} : nodes'[j + 1] = Node(j)
       /\ IF last'.a \in NodeIds
            THEN /\ last'.status = "Ok"
                 /\ nodes'[last'.a + 1] =
                      IF Node(last'.a).stage = "ReadyForOptimize"
                        THEN [Node(last'.a) EXCEPT !.stage = "Optimized"]
                        ELSE Node(last'.a)
            ELSE /\ last'.status = "Failed"
                 /\ nodes' = nodes]_vars

\* the visitor has moved one of two nodes that were ready for optimize, and
\* the other one is still ready
C31_Witness ==
  /\ last.op = "node_visitor_optimize"
  /\ last.status = "Ok"
  /\ last.detail = "ReadyForOptimize"
  /\ Len(nodes) = 2
  /\ Node(last.a).stage = "Optimized"
  /\ Node(1 - last.a).stage = "ReadyForOptimize"

StageTable ==
  {<<NodeStage[i], NodeStage[i + 1]>> : i \in 1..(Len(NodeStage) - 1)}

\* C32: every change of a node's stage is one of the transitions of the state
\* table (each stage to the next one in the order of NodeStage); a node
\* enters Executed from ReadyForExecution only, and the stage of a node that
\* is Executed never changes.
C32_StageTable ==
  [][\A i \in NodeIds :
       /\ nodes'[i + 1].stage # Node(i).stage =>
            <<Node(i).stage, nodes'[i + 1].stage>> \in StageTable
       /\ Node(i).stage = "Executed" => nodes'[i + 1].stage = "Executed"]_vars

\* a job has run to its end on a graph with a node the visitor moved to
\* Optimized and a node that was Executed when the job began
C32_Witness ==
  /\ Returned
  /\ passes >= 1
  /\ \E i \in NodeIds, j \in NodeIds :
       /\ entry[i + 1].stage = "Executed" /\ Node(i).stage = "Executed"
       /\ Node(j).stage = "Optimized"

\* a step that is one call of flow_job_populate_dimensions_for_node that
\* returned
PopulateForNodeStep ==
  /\ last'.op = "flow_job_populate_dimensions_for_node"
  /\ last'.status = "Ok"
  /\ (last' # last \/ nodes' # nodes)

\* C33: every successful flow_job_populate_dimensions_for_node call adds the
\* elapsed time of the call, narrowed to the width of the counter, to the
\* wall_ticks of its node and touches no other node, and no step makes the
\* wall_ticks of a node smaller.
C33_CostCumulative ==
  [][/\ PopulateForNodeStep =>
          \A i \in NodeIds :
            nodes'[i + 1] =
              IF i = last'.a
                THEN [Node(i) EXCEPT !.wall_ticks = @ + (last'.b % TickModulus)]
                ELSE Node(i)
     /\ \A i \in NodeIds : nodes'[i + 1].wall_ticks >= Node(i).wall_ticks]_vars

\* the functions that return a pointer answer null on failure, the others false
FailureValue(fn) ==
  IF fn \in {"imageflow_io_create_for_file", "imageflow_io_create_from_buffer",
             "imageflow_io_create_for_output_buffer", "imageflow_job_create",
             "imageflow_job_get_io", "imageflow_send_json"}
    THEN "NULL" ELSE "false"

\* the functions that take a job, an io, a file name or a buffer and run an
\* operation on it
PointerFns ==
  {"imageflow_io_create_for_file", "imageflow_io_create_from_buffer",
   "imageflow_io_get_output_buffer", "imageflow_job_get_output_buffer_by_id",
   "imageflow_job_get_io", "imageflow_job_add_io", "imageflow_job_destroy"}

\* the call that returned last was given a null pointer where it needs one
NullArgumentGiven ==
  /\ abi.returned
  /\ \/ abi.fn \in PointerFns /\ abi.args.null_arg
     \/ abi.fn = "imageflow_send_json"
          /\ (abi.args.job = "null" \/ abi.args.method = "null" \/ abi.args.json_null)
     \/ abi.fn = "imageflow_json_response_read" /\ abi.args.response_in = 0

\* C34: a call on a ready context that was given a null job, io, method,
\* json_buffer, response_in, filename, buffer, result_buffer or
\* result_buffer_length returns its failure value with a NullArgument error on
\* the context, without running its operation and without writing a result.
C34_NullArgumentRejected ==
  NullArgumentGiven =>
    /\ abi.ret = FailureValue(abi.fn)
    /\ outward_error.kind = "NullArgument"
    /\ abi.effect = "none"
    /\ abi.n = 0
    /\ "out" \notin DOMAIN abi.args

\* the functions that end in handle_result!
HandleResultFns ==
  PointerFns \cup {"imageflow_io_create_for_output_buffer", "imageflow_job_create"}

\* the call that returned last ran its operation under catch_unwind
RanHandled == abi.returned /\ abi.fn \in HandleResultFns /\ abi.effect = "body"

RanSendJson == abi.returned /\ abi.fn = "imageflow_send_json" /\ ~NullArgumentGiven

\* what the closure given to catch_unwind came to: Ok, Err or Panic
OperationOutcome ==
  IF abi.fn = "imageflow_send_json"
    THEN IF abi.args.method = "invalid_utf8" THEN "Err" ELSE abi.args.handled.tag
    ELSE abi.args.body.tag

SentJson == abi.fn = "imageflow_send_json" /\ abi.returned

\* the message reached a handler
Delivered == SentJson /\ abi.effect # "none"

\* C36 as claimed: a null response comes of a panic or of a null argument
\* only.
C36_NullOnlyOnPanicOrNullArgument ==
  (SentJson /\ abi.ret = "NULL") =>
    (NullArgumentGiven \/ (Delivered /\ abi.args.handled.tag = "Panic"))

\* C36 as amended: imageflow_send_json delivers the message to the job when
\* a job is given and to the context otherwise, to one recipient only, and to
\* none when an argument is null or the method is not UTF-8; when the handler
\* returns an error and the response is allocated, the handler's response is
\* returned (not null) and the error is recorded on the context; the
\* response is null exactly on a null argument, a method that is not UTF-8,
\* a panic, or a failed allocation of the response (checked under SpecJson).
C36_JsonRouting ==
  SentJson =>
    /\ Delivered <=> (~NullArgumentGiven /\ abi.args.method # "invalid_utf8")
    /\ Delivered => abi.effect = (IF abi.args.job = "job" THEN "job" ELSE "context")
    /\ (Delivered /\ abi.args.handled.tag = "Err" /\ abi.args.alloc_ok) =>
         /\ abi.ret = "ptr"
         /\ Decode(responses[abi.n]) = abi.args.handled.json
         /\ outward_error = abi.args.handled.error
    /\ abi.ret = "NULL" <=>
         \/ NullArgumentGiven
         \/ abi.args.method = "invalid_utf8"
         \/ abi.args.handled.tag = "Panic"
         \/ ~abi.args.alloc_ok

C36_Witness ==
  /\ Delivered
  /\ abi.effect = "job"
  /\ abi.args.handled.tag = "Err"
  /\ abi.ret = "ptr"
  /\ outward_error.kind = "Err"

RECURSIVE Power(_, _)
Power(b, e) == IF e = 0 THEN 1 ELSE b * Power(b, e - 1)

\* C38: powm(base, exp, modulus) is base^exp mod modulus, a value of
\* 0..modulus - 1, for every base >= 0, exp >= 0 and modulus >= 1.
C38_PowmIsModularPower ==
  last.op = "powm" =>
    /\ last.detail.value = Power(last.a, last.b) % last.detail.modulus
    /\ last.detail.value \in 0..(last.detail.modulus - 1)

\* the license has a data and a signature segment that are base64, and the
\* data is a text LicenseParser::new accepts
WellFormed(parts) ==
  /\ Len(parts) >= 2
  /\ parts[Len(parts) - 1].valid
  /\ parts[Len(parts)].valid
  /\ DataKind(parts[Len(parts) - 1].bytes) = "fields"

\* one of the keys decrypts the signature to the digest of the data
SomeKeyDecrypts(trusted_keys, parts) ==
  \E i \in 1..Len(trusted_keys) :
    LET decrypted == decrypt_public(trusted_keys[i], parts[Len(parts)].bytes)
    IN decrypted.tag = "Ok" /\ decrypted.bytes = Sha512(parts[Len(parts) - 1].bytes)

\* C37: deserialize returns a blob exactly when the segments are well formed
\* and one of the trusted keys decrypts the signature to the digest of the
\* data, whatever the order of the keys and whether or not the signature is
\* too large for another key; otherwise it returns a LicenseCorrupted error.
C37_SignatureAcceptance ==
  last.op = "deserialize" =>
    IF WellFormed(last.b) /\ SomeKeyDecrypts(last.a, last.b)
      THEN last.status = "blob"
      ELSE last.status = "LicenseCorrupted"

====
